---------------------------- MODULE Spec2Model ----------------------------
(***************************************************************************)
(* Model of the next-auth / Azure AD example application:                  *)
(*   - the request pipeline: config.matcher selects the requests on which  *)
(*     middleware() runs; middleware() asks getToken for the session token *)
(*     and redirects to /api/auth/signin when there is none;               *)
(*   - authOptions.callbacks.session, which copies token.sub to            *)
(*     session.user.id;                                                    *)
(*   - the UserProfile component, a function of useSession()'s result.     *)
(*                                                                         *)
(* A path is a sequence of one-character strings, so that the matcher's    *)
(* regular expression is evaluated character by character.  A JavaScript   *)
(* object is a function whose domain is the set of properties it has: a    *)
(* property that is undefined is one that is not in the domain.            *)
(***************************************************************************)
EXTENDS Integers, Sequences, FiniteSets, TLC

VARIABLES
    phase,        \* "idle" | "received" | "responded": where the request is
    request,      \* the request being handled: [url, token], or Null
    response,     \* what the pipeline answered: [kind, ...], or Null
    mwRan,        \* whether middleware() was invoked on the current request
    origin,       \* the URL the client navigated to (before any redirect)
    redirects,    \* redirects the client followed in this navigation
    cbArgs,       \* callbacks.session: the arguments of the last call, or Null
    cbResult,     \* callbacks.session: [session, token] after the call, or Null
    hook,         \* UserProfile: what useSession() returned, or Null
    view          \* UserProfile: what the component rendered, or Null

vars == <<phase, request, response, mwRan, origin, redirects,
          cbArgs, cbResult, hook, view>>

pipelineVars == <<phase, request, response, mwRan, origin, redirects>>

callbackVars == <<cbArgs, cbResult>>

profileVars == <<hook, view>>

\* JavaScript's null.
Null == [isNull |-> TRUE]

-----------------------------------------------------------------------------
(* Bounds *)

\* A requested path is "/" followed by at most MaxParts pieces of Pieces.
MaxParts == 3

\* The client gives up after following this many redirects.
MaxRedirects == 3

-----------------------------------------------------------------------------
(* Character sequences *)

Api == <<"a", "p", "i">>

UNext == <<"_", "n", "e", "x", "t">>

Static == <<"s", "t", "a", "t", "i", "c">>

Favicon == <<"f", "a", "v", "i", "c", "o", "n">>

Ico == <<"i", "c", "o">>

Dot == <<".">>

Slash == <<"/">>

\* '/api/auth/signin', the literal of middleware().
SignInPath ==
    Slash \o Api \o Slash \o <<"a", "u", "t", "h">> \o Slash
          \o <<"s", "i", "g", "n", "i", "n">>

StartsWith(s, p) ==
    /\ Len(s) >= Len(p)
    /\ SubSeq(s, 1, Len(p)) = p

ContainsDot(s) ==
    \E i \in 1..Len(s) : s[i] = "."

-----------------------------------------------------------------------------
\* config.matcher: '/((?!api|_next|static|.*\\..*|favicon.ico).*)'
\* The framework anchors the pattern at both ends of the request's pathname.

\* The alternative favicon.ico of the lookahead: its dot is the regular
\* expression's "any character", and a lookahead matches a prefix.
LookaheadFavicon(rest) ==
    /\ Len(rest) >= Len(Favicon) + 1 + Len(Ico)
    /\ SubSeq(rest, 1, Len(Favicon)) = Favicon
    /\ SubSeq(rest, Len(Favicon) + 2, Len(Favicon) + 1 + Len(Ico)) = Ico

\* Mutant: the directory alternatives written as api/, _next/ and static/.
Lookahead_DirectoriesOnly(rest) ==
    \/ StartsWith(rest, Api \o Slash)
    \/ StartsWith(rest, UNext \o Slash)
    \/ StartsWith(rest, Static \o Slash)
    \/ ContainsDot(rest)
    \/ LookaheadFavicon(rest)

\* The negative lookahead (?!api|_next|static|.*\..*|favicon.ico) at the position that
\* follows the leading slash: TRUE when one alternative matches there, that
\* is, when the negative lookahead rejects the path.
Lookahead(rest) ==
    \/ StartsWith(rest, Api)
    \/ StartsWith(rest, UNext)
    \/ StartsWith(rest, Static)
    \/ ContainsDot(rest)
    \/ LookaheadFavicon(rest)

\* Mutant: a matcher without the negative lookahead, '/(.*)'.
matcher_EveryPath(path) ==
    /\ Len(path) >= 1
    /\ path[1] = "/"

\* Whether config.matcher selects the path: a leading slash, the negative
\* lookahead, then any characters up to the end.
matcher(path) ==
    /\ Len(path) >= 1
    /\ path[1] = "/"
    /\ ~Lookahead(Tail(path))

-----------------------------------------------------------------------------
(* Requests *)

Pieces == {Api, UNext, Static, Favicon, Ico, Dot, Slash, <<"x">>}

RECURSIVE Flatten(_)
Flatten(parts) ==
    IF parts = <<>> THEN <<>> ELSE Head(parts) \o Flatten(Tail(parts))

Paths ==
    {Slash \o Flatten(parts) :
        parts \in UNION {[1..n -> Pieces] : n \in 0..MaxParts}}

Origins ==
    {[scheme |-> "http", host |-> "localhost", port |-> 3000],
     [scheme |-> "https", host |-> "app.example.com", port |-> 443]}

Queries == {"", "tab=1"}

Urls ==
    {[scheme |-> o.scheme, host |-> o.host, port |-> o.port,
      path |-> p, query |-> q] : o \in Origins, p \in Paths, q \in Queries}

\* A decoded JWT: an object that may or may not carry the subject claim.
Tokens ==
    {[name |-> "Ada"],
     [name |-> "Ada", sub |-> ""],
     [name |-> "Ada", sub |-> "u1"],
     [name |-> "Bob", sub |-> "u2"]}

\* What getToken can yield for a request: a decoded token, or null.
TokenResults == Tokens \cup {Null}

\* JavaScript's truthiness of a value that is an object or null.
Truthy(v) == v # Null

\* await getToken({ req: request, secret }): the token the request's
\* session cookie decodes to, or null.
getToken(req) == req.token

\* new URL(ref, base) for a reference that is an absolute path: scheme, host
\* and port of the base, the reference as the path, no query.
NewURL(ref, base) ==
    [scheme |-> base.scheme, host |-> base.host, port |-> base.port,
     path |-> ref, query |-> ""]

\* NextResponse.redirect(url)
Redirect(url) == [kind |-> "redirect", location |-> url]

\* NextResponse.next()
PassThrough == [kind |-> "next"]

\* Mutant: the sign-in URL built from a configured base URL instead of the
\* request's own.
middleware_LocalhostSignIn(req) ==
    LET token == getToken(req) IN
    IF ~Truthy(token)
    THEN Redirect([scheme |-> "http", host |-> "localhost", port |-> 3000,
                   path |-> SignInPath, query |-> ""])
    ELSE PassThrough

\* Mutant: the test written as !token?.sub.
middleware_RequiresSub(req) ==
    LET token == getToken(req) IN
    IF ~Truthy(token) \/ "sub" \notin DOMAIN token \/ token.sub = ""
    THEN Redirect(NewURL(SignInPath, req.url))
    ELSE PassThrough

\* middleware(request)
middleware(req) ==
    LET token == getToken(req) IN
    IF ~Truthy(token)
    THEN Redirect(NewURL(SignInPath, req.url))
    ELSE PassThrough

-----------------------------------------------------------------------------
(* authOptions.callbacks.session *)

UserFields == {"name", "email", "image", "id"}

\* The value a user object holds for a property, when it has the property.
UserValues(f) ==
    CASE f = "name"  -> {"Ada", "Bob"}
      [] f = "email" -> {"ada@example.com"}
      [] f = "image" -> {"/ada.png"}
      [] f = "id"    -> {"stale"}

UserValueSet == UNION {UserValues(f) : f \in UserFields}

\* session.user: an object with any subset of the properties.
Users ==
    UNION {{u \in [d -> UserValueSet] : \A f \in d : u[f] \in UserValues(f)}
            : d \in SUBSET UserFields}

Expiries == {"2026-12-01T00:00:00.000Z", "2027-01-01T00:00:00.000Z"}

\* A session: expires, and a user or none (DefaultSession declares user?).
Sessions ==
    {[expires |-> e] : e \in Expiries}
        \cup {[expires |-> e, user |-> u] : e \in Expiries, u \in Users}

\* Whether obj.key is truthy, for a property that holds an object when it
\* is there (session.user).
TruthyObjectProp(obj, key) == key \in DOMAIN obj

\* Whether obj.key is truthy, for a property that holds a string when it is
\* there (token.sub): undefined and the empty string are falsy.
TruthyStringProp(obj, key) ==
    /\ key \in DOMAIN obj
    /\ obj[key] # ""

\* obj.key = val
SetProp(obj, key, val) ==
    [k \in DOMAIN obj \cup {key} |-> IF k = key THEN val ELSE obj[k]]

\* Mutant: the assignment written as session.user.id ??= token.sub.
session_KeepsExistingId(sess, tok) ==
    IF /\ TruthyObjectProp(sess, "user")
       /\ TruthyStringProp(tok, "sub")
       /\ "id" \notin DOMAIN sess.user
    THEN [returned |-> SetProp(sess, "user", SetProp(sess.user, "id", tok.sub)),
          token |-> tok]
    ELSE [returned |-> sess, token |-> tok]

\* Mutant: the user replaced by a new object { id: token.sub }.
session_RebuildsUser(sess, tok) ==
    IF TruthyObjectProp(sess, "user") /\ TruthyStringProp(tok, "sub")
    THEN [returned |-> SetProp(sess, "user", [id |-> tok.sub]),
          token |-> tok]
    ELSE [returned |-> sess, token |-> tok]

\* async session({ session, token }): the session it returns (the object it
\* was given, after the assignment) and the token after the call.
session(sess, tok) ==
    IF TruthyObjectProp(sess, "user") /\ TruthyStringProp(tok, "sub")
    THEN [returned |-> SetProp(sess, "user", SetProp(sess.user, "id", tok.sub)),
          token |-> tok]
    ELSE [returned |-> sess, token |-> tok]

\* The library calls the callback with a session and a decoded token.
CallSession ==
    /\ \E sess \in Sessions, tok \in Tokens :
        /\ cbArgs' = [session |-> sess, token |-> tok]
        /\ cbResult' = session(sess, tok)
    /\ UNCHANGED <<pipelineVars, profileVars>>

-----------------------------------------------------------------------------
(* components/UserProfile.tsx *)

Statuses == {"loading", "authenticated", "unauthenticated"}

\* What useSession() can hand to the component.
HookResults ==
    {[data |-> d, status |-> st] : d \in Sessions \cup {Null}, st \in Statuses}

\* session.user?.name as the children it renders: nothing when undefined.
UserNameChildren(sess) ==
    IF "user" \in DOMAIN sess /\ "name" \in DOMAIN sess.user
    THEN <<sess.user.name>>
    ELSE <<>>

\* Mutant: the session tested before the status.
UserProfile_SessionFirst(data, status) ==
    IF ~Truthy(data)
    THEN IF status = "loading"
         THEN [tag |-> "p", children |-> <<"Loading...">>]
         ELSE [tag |-> "p", children |-> <<"You are not logged in.">>]
    ELSE [tag |-> "div",
          children |-> <<"Welcome, ">> \o UserNameChildren(data) \o <<"!">>]

\* UserProfile(), as a function of what useSession() returned.
UserProfile(data, status) ==
    IF status = "loading"
    THEN [tag |-> "p", children |-> <<"Loading...">>]
    ELSE IF ~Truthy(data)
    THEN [tag |-> "p", children |-> <<"You are not logged in.">>]
    ELSE [tag |-> "div",
          children |-> <<"Welcome, ">> \o UserNameChildren(data) \o <<"!">>]

\* React renders the component.
Render ==
    /\ \E h \in HookResults :
        /\ hook' = h
        /\ view' = UserProfile(h.data, h.status)
    /\ UNCHANGED <<pipelineVars, callbackVars>>

-----------------------------------------------------------------------------
(* The request pipeline *)

\* The client navigates to a URL; its session cookie decodes to tok.
Navigate ==
    /\ phase = "idle"
    /\ \E u \in Urls, tok \in TokenResults :
        /\ request' = [url |-> u, token |-> tok]
        /\ origin' = u
    /\ phase' = "received"
    /\ response' = Null
    /\ mwRan' = FALSE
    /\ redirects' = 0
    /\ UNCHANGED <<callbackVars, profileVars>>

\* The matcher does not select the path: the request goes to its route
\* without the middleware.
Bypass ==
    /\ phase = "received"
    /\ ~matcher(request.url.path)
    /\ phase' = "responded"
    /\ response' = [kind |-> "route"]
    /\ mwRan' = FALSE
    /\ UNCHANGED <<request, origin, redirects, callbackVars, profileVars>>

\* The matcher selects the path: the framework runs middleware().
RunMiddleware ==
    /\ phase = "received"
    /\ matcher(request.url.path)
    /\ phase' = "responded"
    /\ response' = middleware(request)
    /\ mwRan' = TRUE
    /\ UNCHANGED <<request, origin, redirects, callbackVars, profileVars>>

\* The client follows a redirect: a new request to the location, with the
\* same cookies.
FollowRedirect ==
    /\ phase = "responded"
    /\ response.kind = "redirect"
    /\ redirects < MaxRedirects
    /\ request' = [url |-> response.location, token |-> request.token]
    /\ redirects' = redirects + 1
    /\ phase' = "received"
    /\ response' = Null
    /\ mwRan' = FALSE
    /\ UNCHANGED <<origin, callbackVars, profileVars>>

\* The navigation is over: the client has its answer.
Finish ==
    /\ phase = "responded"
    /\ response.kind # "redirect"
    /\ phase' = "idle"
    /\ request' = Null
    /\ response' = Null
    /\ origin' = Null
    /\ mwRan' = FALSE
    /\ redirects' = 0
    /\ UNCHANGED <<callbackVars, profileVars>>

Init ==
    /\ phase = "idle"
    /\ request = Null
    /\ response = Null
    /\ mwRan = FALSE
    /\ origin = Null
    /\ redirects = 0
    /\ cbArgs = Null
    /\ cbResult = Null
    /\ hook = Null
    /\ view = Null

Next ==
    \/ Navigate
    \/ Bypass
    \/ RunMiddleware
    \/ FollowRedirect
    \/ Finish

Spec == Init /\ [][Next]_vars

NextSession == CallSession

SessionSpec == Init /\ [][NextSession]_vars

NextProfile == Render

ProfileSpec == Init /\ [][NextProfile]_vars

-----------------------------------------------------------------------------
(* The kinds of path the documentation speaks of *)

\* The path is /dir or lies under /dir/.
UnderDir(path, dir) ==
    \/ path = Slash \o dir
    \/ StartsWith(path, Slash \o dir \o Slash)

\* An API path: /api and what lies under it.
IsApiPath(path) == UnderDir(path, Api)

\* A framework-internal path: /_next and what lies under it.
IsInternalPath(path) == UnderDir(path, UNext)

\* /favicon.ico
IsFaviconPath(path) == path = Slash \o Favicon \o Dot \o Ico

\* A static file: what lies under /static, and any path with a dot in it
\* (a file name with an extension, /favicon.ico among them).
IsStaticAsset(path) ==
    \/ UnderDir(path, Static)
    \/ ContainsDot(path)
    \/ IsFaviconPath(path)

\* A page route: a path that is none of the above.
IsPageRoute(path) ==
    /\ ~IsApiPath(path)
    /\ ~IsInternalPath(path)
    /\ ~IsStaticAsset(path)

\* The URL of the sign-in route on the origin of url.
SignInUrlOf(url) ==
    [scheme |-> url.scheme, host |-> url.host, port |-> url.port,
     path |-> SignInPath, query |-> ""]

-----------------------------------------------------------------------------
(* Claims on the request pipeline, under Spec *)

\* C1: whenever middleware() has run on a request for which getToken yields
\* no token, its response is a redirect whose target is /api/auth/signin on
\* the scheme, host and port of the request's own URL, and it is not the
\* pass-through response NextResponse.next().
C1_NoTokenRedirectsToSignIn ==
    (phase = "responded" /\ mwRan /\ request.token = Null) =>
        /\ response.kind = "redirect"
        /\ response.location = SignInUrlOf(request.url)
        /\ response.kind # "next"

\* C1's case: an unauthenticated request on the second origin, with a query,
\* was redirected.
C1_Witness ==
    /\ phase = "responded"
    /\ mwRan
    /\ request.token = Null
    /\ request.url.host = "app.example.com"
    /\ request.url.query # ""
    /\ response.kind = "redirect"

\* C2: every request for a page route that carries no valid token is
\* intercepted by the middleware and answered with a redirect, never with
\* the page itself.
C2_AllPagesProtected ==
    (/\ phase = "responded"
     /\ request.token = Null
     /\ IsPageRoute(request.url.path)) =>
        /\ mwRan
        /\ response.kind = "redirect"

\* C3: a request path is skipped by config.matcher only if it is an API
\* path, a framework-internal path or a static asset; every other path is
\* handed to the middleware.
C3_SkippedOnlyIfExcludedKind ==
    (phase = "responded" /\ ~mwRan) =>
        \/ IsApiPath(request.url.path)
        \/ IsInternalPath(request.url.path)
        \/ IsStaticAsset(request.url.path)

\* C4: a request whose path is under /api, under /_next, under /static, is
\* /favicon.ico or contains a dot is never handed to the middleware: it is
\* answered by its route, never redirected, whatever token it carries.
C4_ExcludedPathsSkipMiddleware ==
    (/\ phase = "responded"
     /\ \/ UnderDir(request.url.path, Api)
        \/ UnderDir(request.url.path, UNext)
        \/ UnderDir(request.url.path, Static)
        \/ IsFaviconPath(request.url.path)
        \/ ContainsDot(request.url.path)) =>
        /\ ~mwRan
        /\ response.kind = "route"

\* C4's case: an unauthenticated request for /api itself went to its route.
C4_Witness ==
    /\ phase = "responded"
    /\ request.url.path = Slash \o Api
    /\ request.token = Null
    /\ ~mwRan
    /\ response.kind = "route"

\* C5: whenever middleware() has run, its response is the pass-through
\* response if getToken yielded a token and a redirect if it yielded none:
\* the response is a redirect if and only if the token is absent.
C5_RedirectIffNoToken ==
    (phase = "responded" /\ mwRan) =>
        /\ response.kind \in {"redirect", "next"}
        /\ (response.kind = "redirect") <=> (request.token = Null)
        /\ (request.token # Null) => (response = [kind |-> "next"])

\* C5's case: a request carrying a token without a subject claim passed.
C5_Witness ==
    /\ phase = "responded"
    /\ mwRan
    /\ request.token # Null
    /\ "sub" \notin DOMAIN request.token
    /\ response.kind = "next"

\* C9: no redirect loop.  The sign-in path is not selected by the matcher;
\* a client follows at most one redirect; after it the request is for the
\* sign-in path and is answered by its route without the middleware; and an
\* unauthenticated navigation to a matched path gets its final answer there,
\* after exactly one redirect.
C9_NoRedirectLoop ==
    /\ ~matcher(SignInPath)
    /\ redirects <= 1
    /\ (redirects = 1) =>
        /\ request.url = SignInUrlOf(origin)
        /\ request.token = Null
        /\ matcher(origin.path)
    /\ (phase = "responded" /\ redirects = 1) =>
        /\ ~mwRan
        /\ response.kind = "route"
    /\ (/\ phase = "responded"
        /\ request.token = Null
        /\ matcher(origin.path)
        /\ response.kind # "redirect") =>
        /\ redirects = 1
        /\ request.url.path = SignInPath

\* C9's case: the client followed the redirect and the sign-in route
\* answered.
C9_Witness ==
    /\ phase = "responded"
    /\ redirects = 1
    /\ request.url.path = SignInPath
    /\ origin.path # SignInPath
    /\ response.kind = "route"

-----------------------------------------------------------------------------
(* Claims on callbacks.session, under SessionSpec *)

\* C6: when the session has a user and token.sub is a non-empty string, the
\* returned session's user.id equals token.sub.
C6_UserIdIsTokenSub ==
    (/\ cbResult # Null
     /\ "user" \in DOMAIN cbArgs.session
     /\ "sub" \in DOMAIN cbArgs.token
     /\ cbArgs.token.sub # "") =>
        /\ "user" \in DOMAIN cbResult.returned
        /\ "id" \in DOMAIN cbResult.returned.user
        /\ cbResult.returned.user.id = cbArgs.token.sub

\* C6's case: a user that already had another id received the token's.
C6_Witness ==
    /\ cbResult # Null
    /\ "user" \in DOMAIN cbArgs.session
    /\ "id" \in DOMAIN cbArgs.session.user
    /\ cbArgs.session.user.id = "stale"
    /\ "sub" \in DOMAIN cbArgs.token
    /\ cbArgs.token.sub = "u2"
    /\ cbResult.returned.user.id = "u2"

\* C7: every session returned by callbacks.session, for any session and any
\* token, has a user with an id that is a string.
C7_ReturnedSessionHasUserId ==
    (cbResult # Null) =>
        /\ "user" \in DOMAIN cbResult.returned
        /\ "id" \in DOMAIN cbResult.returned.user
        /\ cbResult.returned.user.id \in STRING

\* C10: the callback changes nothing but user.id.  Without a user or without
\* a non-empty token.sub the returned session is the session given; with
\* both, every property of the session other than user.id is as it was; the
\* token is as it was in either case.
C10_OnlyUserIdChanges ==
    (cbResult # Null) =>
        LET before == cbArgs.session
            after == cbResult.returned
            writes == /\ "user" \in DOMAIN before
                      /\ "sub" \in DOMAIN cbArgs.token
                      /\ cbArgs.token.sub # ""
        IN /\ cbResult.token = cbArgs.token
           /\ ~writes => after = before
           /\ writes =>
                /\ DOMAIN after = DOMAIN before
                /\ \A k \in DOMAIN before \ {"user"} : after[k] = before[k]
                /\ DOMAIN after.user \ {"id"} = DOMAIN before.user \ {"id"}
                /\ \A f \in DOMAIN before.user \ {"id"} :
                        after.user[f] = before.user[f]

\* C10's case: a user with a name, an email and an image received an id.
C10_Witness ==
    /\ cbResult # Null
    /\ "user" \in DOMAIN cbArgs.session
    /\ DOMAIN cbArgs.session.user = {"name", "email", "image"}
    /\ "sub" \in DOMAIN cbArgs.token
    /\ cbArgs.token.sub = "u1"
    /\ DOMAIN cbResult.returned.user = {"name", "email", "image", "id"}

-----------------------------------------------------------------------------
(* Claims on UserProfile, under ProfileSpec *)

\* C8: the component renders exactly one of three views: Loading... whenever
\* the status is loading, even with a session; You are not logged in. when
\* the status is not loading and there is no session; the welcome view with
\* session.user.name when the status is not loading and there is a session.
\* The welcome view is never rendered without a session.
C8_ThreeViews ==
    (view # Null) =>
        LET loading == [tag |-> "p", children |-> <<"Loading...">>]
            loggedOut == [tag |-> "p", children |-> <<"You are not logged in.">>]
            welcome == view.tag = "div" /\ Head(view.children) = "Welcome, "
        IN /\ (hook.status = "loading") => (view = loading)
           /\ (hook.status # "loading" /\ hook.data = Null) => (view = loggedOut)
           /\ (hook.status # "loading" /\ hook.data # Null) =>
                /\ welcome
                /\ view.children =
                     IF "user" \in DOMAIN hook.data
                        /\ "name" \in DOMAIN hook.data.user
                     THEN <<"Welcome, ", hook.data.user.name, "!">>
                     ELSE <<"Welcome, ", "!">>
           /\ welcome => (hook.data # Null /\ hook.status # "loading")
           /\ view = loading \/ view = loggedOut \/ welcome

\* C8's case: an authenticated session of Bob rendered the welcome view.
C8_Witness ==
    /\ view # Null
    /\ hook.status = "authenticated"
    /\ hook.data # Null
    /\ view = [tag |-> "div", children |-> <<"Welcome, ", "Bob", "!">>]

=============================================================================
